---- MODULE Spec2Model ----
(***************************************************************************)
(* A model of src/DataConsolidator.h of rvtests: GenotypeCounter, the two  *)
(* imputation functions and DataConsolidator (consolidate, the row-label   *)
(* bookkeeping, countRawGenotype and the dominant/recessive coding).       *)
(*                                                                         *)
(* Numbers.  The matrices hold C++ doubles.  A double is modelled by the   *)
(* exact rational it stands for, a pair <<n, d>> with d > 0 in lowest      *)
(* terms, so that fractional dosages and imputed means are values of the   *)
(* model and the conversion double -> int of the code is a real operation  *)
(* (Trunc).                                                                *)
(*                                                                         *)
(* Matrices.  Matrix (libsrc/MathMatrix.h) is not part of src/.  It is     *)
(* modelled as a record [rows, cols, cell, label]; Dimension keeps the     *)
(* cells that survive a resize and leaves new cells unspecified (the       *)
(* action draws their content), operator== compares the dimensions and the *)
(* cells.                                                                  *)
(***************************************************************************)
EXTENDS Integers, Sequences, FiniteSets, TLC

VARIABLES
  strategy,            \* DataConsolidator::strategy
  genotype,            \* DataConsolidator::genotype
  originalGenotype,    \* DataConsolidator::originalGenotype
  phenotype,           \* DataConsolidator::phenotype
  covariate,           \* DataConsolidator::covariate
  phenotypeUpdated,    \* DataConsolidator::phenotypeUpdated
  covariateUpdated,    \* DataConsolidator::covariateUpdated
  originalRowLabel,    \* DataConsolidator::originalRowLabel
  rowLabel,            \* DataConsolidator::rowLabel
  sex,                 \* DataConsolidator::sex (pointer; NoSex when not set)
  counter,             \* the GenotypeCounter of the caller
  coded,               \* the Matrix the caller hands to codeGenotypeFor...Model
  ret,                 \* the value returned by the last countRawGenotype
  fault,               \* an access outside a container has happened
  op,                  \* the last operation: its name, arguments and trace
  input                \* the arguments of the last consolidate call

vars == <<strategy, genotype, originalGenotype, phenotype, covariate,
          phenotypeUpdated, covariateUpdated, originalRowLabel, rowLabel, sex,
          counter, coded, ret, fault, op, input>>

-----------------------------------------------------------------------------
(* Program constants.                                                      *)

UNINITIALIZED == 0
IMPUTE_MEAN == 1
IMPUTE_HWE == 2
DROP == 3
ANY_SEX == -1
MALE == 1
FEMALE == 2
ANY_PHENO == -1
CTRL == 1
CASE_PHENO == 2   \* PLINK_PHENOTYPE::CASE (CASE is a TLA+ keyword)

-----------------------------------------------------------------------------
(* Bounds of the model.                                                    *)

MaxRows == 2        \* individuals in a matrix handed to consolidate
MaxAdds == 5        \* add() calls on one GenotypeCounter
ImputeRows == 3     \* individuals in a matrix handed to imputeGenotypeToMean

-----------------------------------------------------------------------------
(* double arithmetic, on exact rationals <<n, d>>.                         *)

Abs(x) == IF x < 0 THEN -x ELSE x

RECURSIVE GCD(_, _)
GCD(a, b) == IF b = 0 THEN a ELSE GCD(b, a % b)

Rat(n, d) ==
  LET g == GCD(Abs(n), d)
  IN  IF n >= 0 THEN <<n \div g, d \div g>> ELSE <<-((-n) \div g), d \div g>>

R(n) == <<n, 1>>

RAdd(a, b) == Rat(a[1] * b[2] + b[1] * a[2], a[2] * b[2])
RMul(a, b) == Rat(a[1] * b[1], a[2] * b[2])
RLt(a, b) == a[1] * b[2] < b[1] * a[2]
RLe(a, b) == a[1] * b[2] <= b[1] * a[2]

\* (int) x and the implicit double -> int of "ac += x": towards zero.
Trunc(a) == IF a[1] >= 0 THEN a[1] \div a[2] ELSE -((-a[1]) \div a[2])

-----------------------------------------------------------------------------
(* Matrix.                                                                 *)

EmptyMatrix == [rows |-> 0, cols |-> 0, cell |-> <<>>, label |-> <<>>]

\* Matrix::Dimension(r, c): surviving cells and labels kept, new cells hold
\* fill, new labels are empty.
Dimension(m, r, c, fill) ==
  [rows |-> r, cols |-> c,
   cell |-> [i \in 1..r |-> [j \in 1..c |->
               IF i <= m.rows /\ j <= m.cols THEN m.cell[i][j] ELSE fill]],
   label |-> [j \in 1..c |-> IF j <= m.cols THEN m.label[j] ELSE ""]]

\* Matrix::operator==
MatrixEq(a, b) == a.rows = b.rows /\ a.cols = b.cols /\ a.cell = b.cell

\* m[i][j] = v (0-based in the code, 1-based here)
SetCell(m, i, j, v) == [m EXCEPT !.cell[i][j] = v]

-----------------------------------------------------------------------------
(* GenotypeCounter.                                                        *)

TwoThirds == <<2, 3>>
FourThirds == <<4, 3>>

\* GenotypeCounter::reset
CounterReset ==
  [nHomRef |-> 0, nHet |-> 0, nHomAlt |-> 0, nMissing |-> 0, nSample |-> 0,
   sumAC |-> R(0)]

\* GenotypeCounter::add: the first "if" stands alone, the chain follows it.
CounterAdd(c, g) ==
  LET c1 == IF RLt(g, R(0)) THEN [c EXCEPT !.nMissing = @ + 1] ELSE c
      c2 == IF RLt(g, TwoThirds)
              THEN [c1 EXCEPT !.nHomRef = @ + 1, !.sumAC = RAdd(@, g)]
            ELSE IF RLt(g, FourThirds)
              THEN [c1 EXCEPT !.nHet = @ + 1, !.sumAC = RAdd(@, g)]
            ELSE IF RLe(g, R(2))
              THEN [c1 EXCEPT !.nHomAlt = @ + 1, !.sumAC = RAdd(@, g)]
            ELSE [c1 EXCEPT !.nMissing = @ + 1]
  IN  [c2 EXCEPT !.nSample = @ + 1]

getNumHomRef(c) == c.nHomRef
getNumHet(c) == c.nHet
getNumHomAlt(c) == c.nHomAlt
getNumMissing(c) == c.nMissing
getNumSample(c) == c.nSample
getAC(c) == c.sumAC

-----------------------------------------------------------------------------
(* Imputation.                                                             *)

\* "ac += m[j][i]" with int ac: the sum is formed in double and converted
\* back to int.
AddToInt(ac, v) == Trunc(RAdd(R(ac), v))

\* The first inner loop of both imputation functions: <<ac, an>> of column i
\* over rows 1..j.
RECURSIVE AlleleCount(_, _, _)
AlleleCount(m, i, j) ==
  IF j = 0 THEN <<0, 0>>
  ELSE LET s == AlleleCount(m, i, j - 1)
       IN  IF RLe(R(0), m.cell[j][i])
             THEN <<AddToInt(s[1], m.cell[j][i]), s[2] + 2>>
             ELSE s

\* p = an == 0 ? 0 : 1.0 * ac / an
AlleleFreq(m, i) ==
  LET s == AlleleCount(m, i, m.rows)
  IN  IF s[2] = 0 THEN R(0) ELSE Rat(s[1], s[2])

\* imputeGenotypeToMean: each column's negative cells become g = 2.0 * p.
imputeGenotypeToMean(m) ==
  [m EXCEPT !.cell = [j \in 1..m.rows |-> [i \in 1..m.cols |->
     IF RLt(m.cell[j][i], R(0)) THEN RMul(R(2), AlleleFreq(m, i))
                                ELSE m.cell[j][i]]]]

\* The values a missing cell of a column with frequency p can get from
\* imputeGenotypeByFrequency: 0 when v < pRef, 1 when pRef <= v < pHet, 2
\* otherwise, for some v = r->Next() in [0, 1).
HWEOutcomes(p) ==
  LET pRef == RMul(p, p)
      pHet == RAdd(pRef, RMul(RMul(R(2), p), RAdd(R(1), RMul(R(-1), p))))
  IN  {o \in {0, 1, 2} :
         \/ o = 0 /\ RLt(R(0), pRef)
         \/ o = 1 /\ RLt(pRef, pHet) /\ RLt(pRef, R(1))
         \/ o = 2 /\ RLt(pHet, R(1))}

\* All sequences that take their i-th element from choice[i], i in 1..n.
RECURSIVE Products(_, _)
Products(choice, n) ==
  IF n = 0 THEN {<<>>}
  ELSE {Append(r, v) : r \in Products(choice, n - 1), v \in choice[n]}

\* The matrices imputeGenotypeByFrequency can leave: one outcome per missing
\* cell, a column's frequency being computed before the column is filled.
imputeGenotypeByFrequency(m) ==
  LET outcomes == [i \in 1..m.cols |-> {R(o) : o \in HWEOutcomes(AlleleFreq(m, i))}]
      rowsOf == [j \in 1..m.rows |->
                   Products([i \in 1..m.cols |->
                               IF RLt(m.cell[j][i], R(0)) THEN outcomes[i]
                                                          ELSE {m.cell[j][i]}],
                            m.cols)]
  IN  {[m EXCEPT !.cell = c] : c \in Products(rowsOf, m.rows)}

-----------------------------------------------------------------------------
(* DataConsolidator::consolidate and its helpers.  Rows and columns are    *)
(* numbered from 1 here and from 0 in the code.                            *)

\* A hasNoMissingGenotype that looks at the first marker only; C2 does not
\* hold of a consolidate built on it.
hasNoMissingGenotypeFirstMarker(g, r) ==
  g.cols = 0 \/ ~RLt(g.cell[r][1], R(0))

\* hasNoMissingGenotype(g, r)
hasNoMissingGenotype(g, r) == \A i \in 1..g.cols : ~RLt(g.cell[r][i], R(0))

\* copyRow(src, srcRow, dest, destRow): dest grows to hold the row, then all
\* of dest's columns are written from src.
copyRow(src, srcRow, dest, destRow, fill) ==
  LET m1 == IF dest.cols < src.cols
              THEN Dimension(dest, dest.rows, src.cols, fill) ELSE dest
      m2 == IF m1.rows < destRow
              THEN Dimension(m1, destRow, m1.cols, fill) ELSE m1
  IN  [m2 EXCEPT !.cell[destRow] =
         [i \in 1..m2.cols |-> IF i <= src.cols THEN src.cell[srcRow][i] ELSE fill]]

\* copyColName(src, dest): dest gets src's column count and labels, keeps
\* its own row count.
copyColName(src, dest, fill) ==
  [Dimension(dest, dest.rows, src.cols, fill) EXCEPT !.label = src.label]

\* The loop of the DROP branch from row i on.  st holds the loop's state:
\* genotype g, covariate c, phenotype p, rowLabel lab, idxToCopy idx, and
\* whether rowLabel or originalRowLabel was indexed outside its size.
RECURSIVE DropLoop(_, _, _, _, _, _)
DropLoop(st, i, pheno, cov, origLab, fill) ==
  IF i > st.g.rows THEN st
  ELSE IF hasNoMissingGenotype(st.g, i)
    THEN LET inLab == st.idx + 1 <= Len(st.lab) /\ i <= Len(origLab)
             st1 == [g |-> copyRow(st.g, i, st.g, st.idx + 1, fill),
                     c |-> copyRow(cov, i, st.c, st.idx + 1, fill),
                     p |-> copyRow(pheno, i, st.p, st.idx + 1, fill),
                     lab |-> IF inLab THEN [st.lab EXCEPT ![st.idx + 1] = origLab[i]]
                                      ELSE st.lab,
                     idx |-> st.idx + 1,
                     bad |-> st.bad \/ ~inLab]
         IN  DropLoop(st1, i + 1, pheno, cov, origLab, fill)
    ELSE DropLoop(st, i + 1, pheno, cov, origLab, fill)

\* A DROP branch that leaves out covariate.Dimension; C1 does not hold of a
\* consolidate built on it.
DropBranchWithoutCovariateDimension(g, c, p, lab, pheno, cov, origLab, fill) ==
  LET st == DropLoop([g |-> g, c |-> c, p |-> p, lab |-> lab, idx |-> 0,
                      bad |-> FALSE], 1, pheno, cov, origLab, fill)
  IN  [st EXCEPT !.g = Dimension(st.g, st.idx, st.g.cols, fill),
                 !.p = Dimension(st.p, st.idx, pheno.cols, fill)]

\* The DROP branch: the loop, then the three Dimension calls.
DropBranch(g, c, p, lab, pheno, cov, origLab, fill) ==
  LET st == DropLoop([g |-> g, c |-> c, p |-> p, lab |-> lab, idx |-> 0,
                      bad |-> FALSE], 1, pheno, cov, origLab, fill)
  IN  [st EXCEPT !.g = Dimension(st.g, st.idx, st.g.cols, fill),
                 !.c = Dimension(st.c, st.idx, cov.cols, fill),
                 !.p = Dimension(st.p, st.idx, pheno.cols, fill)]

\* What a cell added by Dimension may hold.
FillValues == {R(0), R(9)}

\* The fills to draw for consolidate(pheno, cov, ...): new cells stay visible
\* only where copyColName widens a stored matrix that has rows (the rows
\* copyRow adds are overwritten at once, and the Dimension calls that end the
\* DROP branch never add a cell), so a single fill is drawn otherwise.
FillsFor(pheno, cov) ==
  IF \/ phenotype.rows > 0 /\ phenotype.cols < pheno.cols
     \/ covariate.rows > 0 /\ covariate.cols < cov.cols
    THEN FillValues ELSE {R(0)}

\* consolidate(pheno, cov, geno).  fill is the content of the cells a
\* Dimension call adds.
Consolidate(pheno, cov, geno) ==
  /\ ~fault
  /\ \E fill \in FillsFor(pheno, cov) :
       LET og == copyColName(geno, geno, fill)
           g0 == copyColName(geno, geno, fill)
           p0 == copyColName(pheno, phenotype, fill)
           c0 == copyColName(cov, covariate, fill)
       IN  /\ originalGenotype' = og
           /\ input' = [pheno |-> pheno, cov |-> cov, geno |-> geno,
                        strategy |-> strategy]
           /\ op' = [name |-> "consolidate"]
           /\ UNCHANGED <<strategy, originalRowLabel, sex, counter, coded, ret>>
           /\ IF strategy = IMPUTE_MEAN THEN
                /\ genotype' = imputeGenotypeToMean(g0)
                /\ phenotype' = IF ~MatrixEq(p0, pheno) THEN pheno ELSE p0
                /\ phenotypeUpdated' = ~MatrixEq(p0, pheno)
                /\ covariate' = IF ~MatrixEq(c0, cov) THEN cov ELSE c0
                /\ covariateUpdated' = ~MatrixEq(c0, cov)
                /\ UNCHANGED <<rowLabel, fault>>
              ELSE IF strategy = IMPUTE_HWE THEN
                /\ genotype' \in imputeGenotypeByFrequency(g0)
                /\ phenotype' = pheno
                /\ covariate' = cov
                /\ UNCHANGED <<phenotypeUpdated, covariateUpdated, rowLabel, fault>>
              ELSE IF strategy = DROP THEN
                LET d == DropBranch(g0, c0, p0, rowLabel, pheno, cov,
                                    originalRowLabel, fill)
                IN  /\ genotype' = d.g
                    /\ covariate' = d.c
                    /\ phenotype' = d.p
                    /\ rowLabel' = d.lab
                    /\ fault' = d.bad
                    /\ phenotypeUpdated' = TRUE
                    /\ covariateUpdated' = TRUE
              ELSE
                /\ genotype' = g0
                /\ phenotype' = p0
                /\ covariate' = c0
                /\ UNCHANGED <<phenotypeUpdated, covariateUpdated, rowLabel, fault>>

\* setStrategy(s)
SetStrategy(s) ==
  /\ ~fault
  /\ strategy' = s
  /\ op' = [name |-> "setStrategy"]
  /\ UNCHANGED <<genotype, originalGenotype, phenotype, covariate,
                 phenotypeUpdated, covariateUpdated, originalRowLabel, rowLabel,
                 sex, counter, coded, ret, fault, input>>

\* setPhenotypeName(name)
SetPhenotypeName(name) ==
  /\ ~fault
  /\ originalRowLabel' = name
  /\ rowLabel' = name
  /\ op' = [name |-> "setPhenotypeName"]
  /\ UNCHANGED <<strategy, genotype, originalGenotype, phenotype, covariate,
                 phenotypeUpdated, covariateUpdated, sex, counter, coded, ret,
                 fault, input>>

getRowLabel == rowLabel
isPhenotypeUpdated == phenotypeUpdated
isCovariateUpdated == covariateUpdated

-----------------------------------------------------------------------------
(* The state after construction.  The constructor is defined outside       *)
(* src/ (DataConsolidator.cpp): the strategy starts UNINITIALIZED, the     *)
(* matrices and label lists are empty, no sex vector is set.               *)

NoSex == <<-1>>
NoInput == [pheno |-> EmptyMatrix, cov |-> EmptyMatrix, geno |-> EmptyMatrix,
            strategy |-> UNINITIALIZED]

Init ==
  /\ strategy = UNINITIALIZED
  /\ genotype = EmptyMatrix
  /\ originalGenotype = EmptyMatrix
  /\ phenotype = EmptyMatrix
  /\ covariate = EmptyMatrix
  /\ phenotypeUpdated = TRUE
  /\ covariateUpdated = TRUE
  /\ originalRowLabel = <<>>
  /\ rowLabel = <<>>
  /\ sex = NoSex
  /\ counter = CounterReset
  /\ coded = EmptyMatrix
  /\ ret = 0
  /\ fault = FALSE
  /\ op = [name |-> "DataConsolidator"]
  /\ input = NoInput

-----------------------------------------------------------------------------
(* setSex and countRawGenotype.                                            *)

\* setSex(sex)
SetSex(v) ==
  /\ ~fault
  /\ sex' = v
  /\ op' = [name |-> "setSex"]
  /\ UNCHANGED <<strategy, genotype, originalGenotype, phenotype, covariate,
                 phenotypeUpdated, covariateUpdated, originalRowLabel, rowLabel,
                 counter, coded, ret, fault, input>>

\* this->phenotype[i][0] is read outside the stored phenotype.
PhenoOutside(i) == i > phenotype.rows \/ phenotype.cols < 1

\* The loop of countRawGenotype from individual i on.  st holds the counter
\* c, the values handed to add so far (with their individuals) and whether
\* the phenotype was read outside its rows; stale[i] is what such a read of
\* row i finds.
RECURSIVE CountLoop(_, _, _, _, _, _)
CountLoop(st, i, col, sexArg, phenoArg, stale) ==
  IF i > originalGenotype.rows THEN st
  ELSE IF sexArg > 0 /\ sex[i] # sexArg
    THEN CountLoop(st, i + 1, col, sexArg, phenoArg, stale)
  ELSE IF phenoArg > 0
          /\ Trunc(RAdd(IF PhenoOutside(i) THEN stale[i] ELSE phenotype.cell[i][1],
                        R(1))) # phenoArg
    THEN CountLoop([st EXCEPT !.bad = @ \/ PhenoOutside(i)],
                   i + 1, col, sexArg, phenoArg, stale)
  ELSE LET g == originalGenotype.cell[i][col + 1]
       IN  CountLoop([c |-> CounterAdd(st.c, g),
                      added |-> Append(st.added, <<i, g>>),
                      bad |-> st.bad \/ (phenoArg > 0 /\ PhenoOutside(i))],
                     i + 1, col, sexArg, phenoArg, stale)

\* countRawGenotype(columnIndex, sex, phenotype, counter), on the counter c0
\* of the caller.  columnIndex counts from 0 as in the code.
CountRawGenotype(columnIndex, sexArg, phenoArg, c0) ==
  /\ ~fault
  /\ UNCHANGED <<strategy, genotype, originalGenotype, phenotype, covariate,
                 phenotypeUpdated, covariateUpdated, originalRowLabel, rowLabel,
                 sex, coded, input>>
  /\ IF columnIndex < 0 \/ columnIndex >= originalGenotype.cols THEN
       /\ ret' = -1 /\ counter' = c0 /\ fault' = FALSE
       /\ op' = [name |-> "countRawGenotype", col |-> columnIndex, sex |-> sexArg,
                 pheno |-> phenoArg, before |-> c0, added |-> <<>>]
     ELSE IF sexArg > 0 /\ sexArg # MALE /\ sexArg # FEMALE THEN
       /\ ret' = -2 /\ counter' = c0 /\ fault' = FALSE
       /\ op' = [name |-> "countRawGenotype", col |-> columnIndex, sex |-> sexArg,
                 pheno |-> phenoArg, before |-> c0, added |-> <<>>]
     ELSE IF sexArg > 0 /\ (sex = NoSex \/ Len(sex) # originalGenotype.rows) THEN
       \* this->sex->size() through a pointer that was never set is a fault
       /\ ret' = -3 /\ counter' = c0 /\ fault' = (sex = NoSex)
       /\ op' = [name |-> "countRawGenotype", col |-> columnIndex, sex |-> sexArg,
                 pheno |-> phenoArg, before |-> c0, added |-> <<>>]
     ELSE IF phenoArg > 0 /\ phenoArg # CTRL /\ phenoArg # CASE_PHENO THEN
       /\ ret' = -2 /\ counter' = c0 /\ fault' = FALSE
       /\ op' = [name |-> "countRawGenotype", col |-> columnIndex, sex |-> sexArg,
                 pheno |-> phenoArg, before |-> c0, added |-> <<>>]
     ELSE
       \E stale \in IF phenoArg > 0 /\ \E i \in 1..originalGenotype.rows : PhenoOutside(i)
                      THEN [1..originalGenotype.rows -> {R(0), R(1)}]
                      ELSE {[i \in 1..originalGenotype.rows |-> R(0)]} :
         LET st == CountLoop([c |-> c0, added |-> <<>>, bad |-> FALSE], 1,
                             columnIndex, sexArg, phenoArg, stale)
         IN  /\ ret' = 0 /\ counter' = st.c /\ fault' = st.bad
             /\ op' = [name |-> "countRawGenotype", col |-> columnIndex,
                       sex |-> sexArg, pheno |-> phenoArg, before |-> c0,
                       added |-> st.added]

-----------------------------------------------------------------------------
(* codeGenotypeForDominantModel and codeGenotypeForRecessiveModel: the     *)
(* same body with the threshold 0.5 or 1.5.                                *)

\* 1 when v > threshold, else 0
CodeOf(v, threshold) == IF RLt(threshold, v) THEN R(1) ELSE R(0)

\* The first loop of the imputing branch: <<s, numGeno>> over rows 1..i.
RECURSIVE CodedSum(_, _)
CodedSum(i, threshold) ==
  IF i = 0 THEN <<0, 0>>
  ELSE LET t == CodedSum(i - 1, threshold)
           v == originalGenotype.cell[i][1]
       IN  IF RLt(v, R(0)) THEN t
           ELSE <<t[1] + CodeOf(v, threshold)[1], t[2] + 1>>

\* The body, on the matrix g0 of the caller.  m = genotype.rows.  In the DROP
\* branch the write (*geno)[0][i] lands in the m x 1 matrix for i = 0 alone.
CodeGenotype(name, threshold, g0) ==
  /\ ~fault
  /\ UNCHANGED <<strategy, genotype, originalGenotype, phenotype, covariate,
                 phenotypeUpdated, covariateUpdated, originalRowLabel, rowLabel,
                 sex, counter, ret, input>>
  /\ op' = [name |-> name, before |-> g0]
  /\ \E fill \in FillValues :
       LET m == genotype.rows
           d == Dimension(g0, m, 1, fill)
       IN  IF strategy = IMPUTE_MEAN \/ strategy = IMPUTE_HWE THEN
             LET outside == m > originalGenotype.rows \/ (m > 0 /\ originalGenotype.cols < 1)
                 t == CodedSum(m, threshold)
                 avg == IF t[2] > 0 THEN Rat(t[1], t[2]) ELSE R(0)
             IN  /\ fault' = outside
                 /\ coded' = IF outside THEN d
                             ELSE [d EXCEPT !.cell = [i \in 1..m |->
                                     <<IF RLt(originalGenotype.cell[i][1], R(0))
                                         THEN avg
                                         ELSE CodeOf(originalGenotype.cell[i][1], threshold)>>]]
           ELSE IF strategy = DROP THEN
             LET outside == m > 1 \/ (m > 0 /\ genotype.cols < 1)
             IN  /\ fault' = outside
                 /\ coded' = IF m > 0 /\ genotype.cols >= 1
                               THEN SetCell(d, 1, 1, CodeOf(genotype.cell[1][1], threshold))
                               ELSE d
           ELSE
             /\ fault' = FALSE
             /\ coded' = d

Half == <<1, 2>>
OneAndHalf == <<3, 2>>

codeGenotypeForDominantModel(g0) ==
  CodeGenotype("codeGenotypeForDominantModel", Half, g0)

codeGenotypeForRecessiveModel(g0) ==
  CodeGenotype("codeGenotypeForRecessiveModel", OneAndHalf, g0)

-----------------------------------------------------------------------------
(* The arguments the specifications draw.                                  *)

Strategies == {UNINITIALIZED, IMPUTE_MEAN, IMPUTE_HWE, DROP}

GenoLabel == <<"1:100", "1:200">>

\* A genotype matrix of n individuals and c markers with the given cells.
GenoOf(n, c, cell) ==
  [rows |-> n, cols |-> c, cell |-> cell, label |-> SubSeq(GenoLabel, 1, c)]

\* Phenotypes with one column; row i of variant v holds 10 v + i, so that a
\* row tells its individual.
PhenoOf(n, v) ==
  [rows |-> n, cols |-> 1, cell |-> [i \in 1..n |-> <<R(10 * v + i)>>],
   label |-> <<"y">>]

\* A case/control phenotype: row i holds b[i], 0 or 1.
PhenoBinary(n, b) ==
  [rows |-> n, cols |-> 1, cell |-> [i \in 1..n |-> <<R(b[i])>>], label |-> <<"y">>]

\* Covariates with c columns; row i holds 5 + i, then zeros.
CovOf(n, c) ==
  [rows |-> n, cols |-> c,
   cell |-> [i \in 1..n |-> [j \in 1..c |-> IF j = 1 THEN R(5 + i) ELSE R(0)]],
   label |-> SubSeq(<<"age", "pc1">>, 1, c)]

\* The label list of k individuals.
NameList(k) == [i \in 1..k |-> <<"id", i>>]

\* Two-marker rows: complete, first marker missing, second marker missing.
RowPatterns == {<<R(2), R(2)>>, <<R(-1), R(2)>>, <<R(2), R(-1)>>}

\* A run is not continued after a query (countRawGenotype and the coding
\* functions leave the consolidator as it was, so what can follow a query is
\* what can follow the state before it).
Queried ==
  op.name \in {"countRawGenotype", "codeGenotypeForDominantModel",
               "codeGenotypeForRecessiveModel"}

SetStrategyAny == \E s \in Strategies : SetStrategy(s)

SetPhenotypeNameAny == SetPhenotypeName(NameList(MaxRows))

-----------------------------------------------------------------------------
(* Spec: setStrategy, setPhenotypeName and consolidate on two-marker       *)
(* genotypes of 0..MaxRows individuals.                                    *)

ConsolidateAny ==
  \E n \in 0..MaxRows : \E cell \in [1..n -> RowPatterns] :
    Consolidate(PhenoOf(n, 0), CovOf(n, 1), GenoOf(n, 2, cell))

Next == SetStrategyAny \/ SetPhenotypeNameAny \/ ConsolidateAny

Spec == Init /\ [][Next]_vars

-----------------------------------------------------------------------------
(* SpecFlags: consolidate on one-marker genotypes with two phenotype       *)
(* variants and covariates of one or two columns.                          *)

ConsolidateFlags ==
  \E n \in 1..MaxRows :
    \E cell \in [1..n -> [1..1 -> {R(-1), R(1)}]], v \in {0, 1}, c \in {1, 2} :
      Consolidate(PhenoOf(n, v), CovOf(n, c), GenoOf(n, 1, cell))

NextFlags == SetStrategyAny \/ SetPhenotypeNameAny \/ ConsolidateFlags

SpecFlags == Init /\ [][NextFlags]_vars

-----------------------------------------------------------------------------
(* SpecCount: consolidate on one-marker genotypes with case/control        *)
(* phenotypes, setSex, then one countRawGenotype.                          *)

ConsolidateCount ==
  \E n \in 1..MaxRows :
    \E cell \in [1..n -> [1..1 -> {R(-1), R(2)}]], b \in [1..n -> {0, 1}] :
      Consolidate(PhenoBinary(n, b), CovOf(n, 1), GenoOf(n, 1, cell))

SetSexAny == \E v \in [1..MaxRows -> {MALE, FEMALE}] : SetSex(v)

\* The names and the sex vector are set before the first consolidate call.
Setup == input = NoInput

\* The names have been set.
Named == originalRowLabel # <<>>

\* The arguments of countRawGenotype: every sex and phenotype filter value
\* in -1..3 on the marker's column, and a column index outside the genotype
\* with filters in order or not.
CountArgs ==
  ({0} \X {-1, 0, 1, 2, 3} \X {-1, 0, 1, 2, 3})
    \cup ({-1, 1} \X {ANY_SEX, 0} \X {ANY_PHENO, 3})

\* The caller's counter has already counted one heterozygote.
CountAny ==
  \E a \in CountArgs :
    CountRawGenotype(a[1], a[2], a[3], CounterAdd(CounterReset, R(1)))

NextCount ==
  \/ ~Queried /\ SetStrategyAny
  \/ ~Queried /\ Setup /\ SetPhenotypeNameAny
  \/ ~Queried /\ Setup /\ SetSexAny
  \/ ~Queried /\ Named /\ ConsolidateCount
  \/ ~Queried /\ CountAny

SpecCount == Init /\ [][NextCount]_vars

-----------------------------------------------------------------------------
(* SpecCode: consolidate on one-marker genotypes, then one coding call on  *)
(* an empty matrix of the caller.                                          *)

ConsolidateCode ==
  \E n \in 0..MaxRows :
    \E cell \in [1..n -> [1..1 -> {R(-1), R(0), R(1), R(2)}]] :
      Consolidate(PhenoOf(n, 0), CovOf(n, 1), GenoOf(n, 1, cell))

CodeDominant == codeGenotypeForDominantModel(EmptyMatrix)

CodeRecessive == codeGenotypeForRecessiveModel(EmptyMatrix)

NextCode ==
  \/ ~Queried /\ SetStrategyAny
  \/ ~Queried /\ Setup /\ SetPhenotypeNameAny
  \/ ~Queried /\ ConsolidateCode
  \/ ~Queried /\ CodeDominant
  \/ ~Queried /\ CodeRecessive

SpecCode == Init /\ [][NextCode]_vars

-----------------------------------------------------------------------------
(* SpecCounter: a GenotypeCounter on its own.  op.added is the sequence of *)
(* values handed to add since the last reset.                              *)

DosageValues == {R(-1), R(0), <<1, 2>>, R(1), <<3, 2>>, R(2), <<5, 2>>}

InitCounter ==
  /\ Init!1 /\ Init!2 /\ Init!3 /\ Init!4 /\ Init!5 /\ Init!6 /\ Init!7
  /\ Init!8 /\ Init!9 /\ Init!10 /\ Init!11 /\ Init!12 /\ Init!13 /\ Init!14
  /\ Init!16
  /\ op = [name |-> "GenotypeCounter", added |-> <<>>]

Others ==
  <<strategy, genotype, originalGenotype, phenotype, covariate,
    phenotypeUpdated, covariateUpdated, originalRowLabel, rowLabel, sex, coded,
    ret, fault, input>>

CounterResetStep ==
  /\ counter' = CounterReset
  /\ op' = [name |-> "reset", added |-> <<>>]
  /\ UNCHANGED Others

CounterAddStep ==
  \E g \in DosageValues :
    /\ Len(op.added) < MaxAdds
    /\ counter' = CounterAdd(counter, g)
    /\ op' = [name |-> "add", added |-> Append(op.added, g)]
    /\ UNCHANGED Others

NextCounter == CounterResetStep \/ CounterAddStep

SpecCounter == InitCounter /\ [][NextCounter]_vars

-----------------------------------------------------------------------------
(* SpecImpute: imputeGenotypeToMean applied to one matrix of hard calls    *)
(* and dosages.                                                            *)

ImputeValues == {R(-1), R(0), <<1, 2>>, R(1), <<3, 2>>, R(2)}

InitImpute ==
  /\ Init!1 /\ Init!3 /\ Init!4 /\ Init!5 /\ Init!6 /\ Init!7
  /\ Init!8 /\ Init!9 /\ Init!10 /\ Init!11 /\ Init!12 /\ Init!13 /\ Init!14
  /\ Init!16
  /\ \E n \in 0..ImputeRows, c \in {1, 2} :
       \E cell \in [1..n -> [1..c -> ImputeValues]] :
         genotype = GenoOf(n, c, cell)
  /\ op = [name |-> "matrix", before |-> genotype]

ImputeToMeanStep ==
  /\ op.name = "matrix"
  /\ genotype' = imputeGenotypeToMean(genotype)
  /\ op' = [name |-> "imputeGenotypeToMean", before |-> genotype]
  /\ UNCHANGED <<strategy, originalGenotype, phenotype, covariate,
                 phenotypeUpdated, covariateUpdated, originalRowLabel, rowLabel,
                 sex, counter, coded, ret, fault, input>>

NextImpute == ImputeToMeanStep

SpecImpute == InitImpute /\ [][NextImpute]_vars

-----------------------------------------------------------------------------
(* What the claims speak of, stated apart from the operators above.        *)

IsMissing(v) == v[1] < 0

\* The complete individuals of g among rows 1..n, in input order.
RECURSIVE CompleteUpTo(_, _)
CompleteUpTo(g, n) ==
  IF n = 0 THEN <<>>
  ELSE IF \A j \in 1..g.cols : ~IsMissing(g.cell[n][j])
    THEN Append(CompleteUpTo(g, n - 1), n)
    ELSE CompleteUpTo(g, n - 1)

CompleteRows(g) == CompleteUpTo(g, g.rows)

Consolidated == op.name = "consolidate" /\ ~fault

RowsAligned ==
  genotype.rows = phenotype.rows /\ phenotype.rows = covariate.rows

C2_DropKeepsCompleteRows ==
  Consolidated /\ input.strategy = DROP =>
    LET keep == CompleteRows(input.geno)
    IN  /\ genotype.rows = Len(keep) /\ Len(genotype.cell) = Len(keep)
        /\ phenotype.rows = Len(keep) /\ Len(phenotype.cell) = Len(keep)
        /\ covariate.rows = Len(keep) /\ Len(covariate.cell) = Len(keep)
        /\ \A k \in 1..Len(keep) :
             /\ genotype.cell[k] = input.geno.cell[keep[k]]
             /\ phenotype.cell[k] = input.pheno.cell[keep[k]]
             /\ covariate.cell[k] = input.cov.cell[keep[k]]
             /\ \A j \in 1..genotype.cols : ~IsMissing(genotype.cell[k][j])

\* A DROP consolidate whose only complete individual is the second one, with
\* the first one missing its second marker only.
C2_Witness ==
  /\ Consolidated /\ input.strategy = DROP
  /\ input.geno.rows >= 2
  /\ CompleteRows(input.geno) = <<2>>
  /\ ~IsMissing(input.geno.cell[1][1])
  /\ phenotype.cell = <<input.pheno.cell[2]>>

\* C3: after setPhenotypeName and consolidate under DROP, getRowLabel() is
\* the list of the labels of the retained individuals in input order, one
\* per row of the consolidated genotype.
C3_RowLabelMatchesRetained ==
  Consolidated /\ input.strategy = DROP /\ Len(originalRowLabel) = input.geno.rows =>
    getRowLabel = [k \in 1..genotype.rows |->
                     originalRowLabel[CompleteRows(input.geno)[k]]]

\* The sum of the non-missing cells of column i over rows 1..j.
RECURSIVE ObservedSum(_, _, _)
ObservedSum(m, i, j) ==
  IF j = 0 THEN R(0)
  ELSE IF IsMissing(m.cell[j][i]) THEN ObservedSum(m, i, j - 1)
  ELSE RAdd(ObservedSum(m, i, j - 1), m.cell[j][i])

ObservedCount(m, i) == Cardinality({j \in 1..m.rows : ~IsMissing(m.cell[j][i])})

\* 2 * sum / (2 * count) of the non-missing cells of column i, 0 without any.
ObservedMean(m, i) ==
  IF ObservedCount(m, i) = 0 THEN R(0)
  ELSE LET t == ObservedSum(m, i, m.rows)
       IN  Rat(2 * t[1], 2 * ObservedCount(m, i) * t[2])

\* C4: imputeGenotypeToMean turns every missing cell of a column into
\* 2 * (sum of the column's non-missing cells) / (2 * their number), or 0
\* without any, leaves the other cells alone and leaves no missing cell.
C4_MeanOfObserved ==
  op.name = "imputeGenotypeToMean" =>
    \A i \in 1..genotype.cols : \A j \in 1..genotype.rows :
      /\ ~IsMissing(genotype.cell[j][i])
      /\ genotype.cell[j][i] = IF IsMissing(op.before.cell[j][i])
                                 THEN ObservedMean(op.before, i)
                                 ELSE op.before.cell[j][i]

\* The tally a value belongs to.
TallyOf(g) ==
  IF RLt(g, R(0)) \/ RLt(R(2), g) THEN "missing"
  ELSE IF RLt(g, TwoThirds) THEN "homRef"
  ELSE IF RLt(g, FourThirds) THEN "het"
  ELSE "homAlt"

Tally(a, t) == Cardinality({k \in 1..Len(a) : TallyOf(a[k]) = t})

RECURSIVE SumNonMissing(_, _)
SumNonMissing(a, n) ==
  IF n = 0 THEN R(0)
  ELSE IF TallyOf(a[n]) = "missing" THEN SumNonMissing(a, n - 1)
  ELSE RAdd(SumNonMissing(a, n - 1), a[n])

\* C5: after reset() and add(a[1]), ..., add(a[n]) every value is counted in
\* exactly one tally, the tallies sum to the sample count and getAC() is the
\* sum of the non-missing values; [0,0,1,2,-1] gives 2, 1, 1, 1, 5 and 3.
C5_CounterTallies ==
  op.name \in {"GenotypeCounter", "reset", "add"} =>
    LET a == op.added
    IN  /\ getNumHomRef(counter) = Tally(a, "homRef")
        /\ getNumHet(counter) = Tally(a, "het")
        /\ getNumHomAlt(counter) = Tally(a, "homAlt")
        /\ getNumMissing(counter) = Tally(a, "missing")
        /\ getNumSample(counter) = Len(a)
        /\ getNumHomRef(counter) + getNumHet(counter) + getNumHomAlt(counter)
             + getNumMissing(counter) = getNumSample(counter)
        /\ getAC(counter) = SumNonMissing(a, Len(a))
        /\ a = <<R(0), R(0), R(1), R(2), R(-1)>> =>
             /\ getNumHomRef(counter) = 2 /\ getNumHet(counter) = 1
             /\ getNumHomAlt(counter) = 1 /\ getNumMissing(counter) = 1
             /\ getNumSample(counter) = 5 /\ getAC(counter) = R(3)

Counted == op.name = "countRawGenotype" /\ ~fault

\* C6: countRawGenotype returns -1 for a column index outside the original
\* genotype, -2 for a sex filter other than ANY_SEX, MALE, FEMALE and -2 for
\* a phenotype filter other than ANY_PHENO, CTRL, CASE (the sex filter and
\* the sex vector being in order), and leaves the counter alone in each
\* case.
C6_CountErrorCodes ==
  Counted =>
    LET badCol == op.col < 0 \/ op.col >= originalGenotype.cols
        badSex == op.sex \notin {ANY_SEX, MALE, FEMALE}
        badPheno == op.pheno \notin {ANY_PHENO, CTRL, CASE_PHENO}
        sexInOrder == op.sex = ANY_SEX \/ (~badSex /\ Len(sex) = originalGenotype.rows)
        untouched == counter = op.before /\ op.added = <<>>
    IN  /\ badCol => ret = -1 /\ untouched
        /\ ~badCol /\ badSex => ret = -2 /\ untouched
        /\ ~badCol /\ sexInOrder /\ badPheno => ret = -2 /\ untouched

\* The individuals of the last consolidate call that pass the filters,
\* among 1..n in order, each with its input genotype at column col.
RECURSIVE Matching(_, _, _, _)
Matching(n, col, sexArg, phenoArg) ==
  IF n = 0 THEN <<>>
  ELSE IF /\ sexArg = ANY_SEX \/ sex[n] = sexArg
          /\ phenoArg = ANY_PHENO \/ Trunc(RAdd(input.pheno.cell[n][1], R(1))) = phenoArg
    THEN Append(Matching(n - 1, col, sexArg, phenoArg), <<n, input.geno.cell[n][col + 1]>>)
    ELSE Matching(n - 1, col, sexArg, phenoArg)

\* C9: a successful countRawGenotype hands to add, once each, the original
\* genotype of exactly the input individuals whose sex matches the sex filter
\* and whose own phenotype plus 1 matches the phenotype filter.
C9_CountsMatchingIndividuals ==
  /\ Counted /\ ret = 0 /\ input # NoInput
  /\ op.sex \in {ANY_SEX, MALE, FEMALE} /\ op.pheno \in {ANY_PHENO, CTRL, CASE_PHENO}
  => op.added = Matching(input.geno.rows, op.col, op.sex, op.pheno)

\* C7: when consolidate returns under IMPUTE_HWE the stored phenotype and
\* covariate are the inputs and both updated flags are true.
C7_HWEFlagsTrue ==
  Consolidated /\ input.strategy = IMPUTE_HWE =>
    /\ phenotype = input.pheno /\ covariate = input.cov
    /\ isPhenotypeUpdated /\ isCovariateUpdated

\* C8: a consolidate under IMPUTE_MEAN stores the input phenotype and
\* covariate, and sets each updated flag exactly when the matrix stored
\* before the call differed from the input.
C8_MeanFlagsTellChange ==
  [][op'.name = "consolidate" /\ input'.strategy = IMPUTE_MEAN =>
       /\ phenotype' = input'.pheno /\ covariate' = input'.cov
       /\ phenotypeUpdated' <=> (phenotype # input'.pheno)
       /\ covariateUpdated' <=> (covariate # input'.cov)]_vars

\* The coding of individual i's value v under the threshold of the model.
Threshold == IF op.name = "codeGenotypeForDominantModel" THEN Half ELSE OneAndHalf

\* The mean of the coded values of the non-missing input individuals.
CodedMean ==
  LET seen == {i \in 1..input.geno.rows : ~IsMissing(input.geno.cell[i][1])}
      ones == {i \in seen : RLt(Threshold, input.geno.cell[i][1])}
  IN  IF seen = {} THEN R(0) ELSE Rat(Cardinality(ones), Cardinality(seen))

\* C10: after consolidate of a single-marker genotype, the coding functions
\* write inside an m x 1 matrix only and leave in row i 1 or 0 as individual
\* i's value exceeds the threshold or not: the consolidated value under DROP,
\* the original value under the imputing strategies, where a missing value
\* gets the mean of the coded values.
C10_CodedGenotype ==
  /\ op.name \in {"codeGenotypeForDominantModel", "codeGenotypeForRecessiveModel"}
  /\ input # NoInput /\ input.strategy = strategy
  /\ strategy \in {IMPUTE_MEAN, IMPUTE_HWE, DROP}
  => /\ ~fault
     /\ coded.rows = genotype.rows /\ coded.cols = 1
     /\ \A i \in 1..genotype.rows :
          coded.cell[i][1] =
            IF strategy = DROP THEN CodeOf(genotype.cell[i][1], Threshold)
            ELSE IF IsMissing(input.geno.cell[i][1]) THEN CodedMean
            ELSE CodeOf(input.geno.cell[i][1], Threshold)

====
